---- MODULE Spec2Model ----
(***************************************************************************)
(* MalTrackarr (src/app.py): the OAuth2 token lifecycle (ensure_token,     *)
(* apply_token_response), the paginated watch-list fetch with its 401      *)
(* recovery (fetch_all_animelist), the cross-reference map                 *)
(* (fetch_anime_ids_map), the merge (build_output_list) and the /animelist *)
(* handler.                                                                *)
(*                                                                         *)
(* Python dicts are functions whose DOMAIN is the set of keys that are     *)
(* present; None is the value None below.  The credential file holds the   *)
(* JSON of a dict of strings and integers, which json.dump / json.load     *)
(* give back unchanged, so disk is the dict the file holds.                *)
(* The program is sequential: pc is the position of the one flow of        *)
(* control, and every blocking network call is a step boundary whose       *)
(* answer is chosen by the environment.                                    *)
(***************************************************************************)
EXTENDS Integers, Sequences, FiniteSets, TLC

VARIABLES
    config,      \* the global dict `config` (in memory)
    disk,        \* the content of CONFIG_PATH
    now,         \* the clock read by now_ts()
    pc,          \* position of the flow of control
    caller,      \* who called the ensure_token in progress: main, fetch, recover
    etResult,    \* how the last ensure_token ended: "ok" or the error it raised
    etStart,     \* the record ensure_token loaded when it started
    etNow,       \* the clock when the ensure_token in progress started
    tokenResp,   \* ensure_token's local token_resp
    applied,     \* the ensure_token in progress ran apply_token_response to its end
    etCalls,     \* the exchanges the ensure_token in progress has posted, in order
    opCalls,     \* how many network calls the operation in progress has issued
    username,    \* fetch_all_animelist's argument username
    status,      \* fetch_all_animelist's argument status
    token,       \* fetch_all_animelist's local token (the bearer of headers)
    url,         \* fetch_all_animelist's local url (0: None or empty)
    params,      \* fetch_all_animelist's local params
    items,       \* fetch_all_animelist's local items
    pages,       \* the data of every page accepted by the fetch in progress
    recoveries,  \* how often the fetch in progress ran the 401 recovery
    pageGets,    \* how many requests the fetch in progress sent to the current url
    pageDiscards, \* how often it discarded the access token for the current url
    lastGet,     \* the last page request sent, and its answer's status (0: none yet)
    failedGet,   \* the page request whose 401 started the last recovery
    request,     \* the query arguments of the last /animelist request
    response,    \* the HTTP answer of the last /animelist request
    xrefPayload, \* fetch_anime_ids_map's local payload, as its sequence of items
    idsMap,      \* animelist_route's local anime_ids_map
    usedCodes    \* the authorization codes sent in an exchange so far

vars == <<config, disk, now, pc, caller, etResult, etStart, etNow, tokenResp, applied,
          etCalls, opCalls, username, status, token, url, params, items, pages,
          recoveries, pageGets, pageDiscards, lastGet, failedGet, request, response,
          xrefPayload, idsMap, usedCodes>>

fetchLocals == <<username, status, token, url, params, items>>
fetchHistory == <<pages, recoveries, pageGets, pageDiscards, lastGet, failedGet>>
etLocals == <<etResult, etStart, etNow, tokenResp, applied, etCalls>>
routeLocals == <<xrefPayload, idsMap>>

-----------------------------------------------------------------------------
(* Bounds of the model *)

MaxNow == 60          \* the clock stops advancing here
TickStep == 30        \* the clock advances in steps of this many seconds
MaxPages == 2         \* the longest page chain the watch-list service serves
MaxItems == 2         \* the longest watch-list handed to build_output_list directly
MaxDocLen == 2        \* the longest cross-reference document parsed directly

-----------------------------------------------------------------------------
(* Python values *)

None == "<None>"

EmptyDict == [k \in {} |-> None]

Get(d, k, default) == IF k \in DOMAIN d THEN d[k] ELSE default

Put(d, k, v) == [x \in (DOMAIN d) \cup {k} |-> IF x = k THEN v ELSE d[x]]

Pop(d, k) == [x \in (DOMAIN d) \ {k} |-> d[x]]

\* `not v` for a string or None
Falsy(v) == v = None \/ v = ""

\* a JSON value that int() accepts, and one (null) on which int() raises
JInt(n) == [t |-> "int", v |-> n]
JNull == [t |-> "null", v |-> 0]

\* Optional[Dict]: what request_token_with_* return
Some(d) == [some |-> TRUE, json |-> d]
NoneResp == [some |-> FALSE, json |-> EmptyDict]

\* `if token_resp:` -- None and the empty dict are both false
Truthy(r) == r.some /\ DOMAIN r.json # {}

-----------------------------------------------------------------------------
(* The environment: credential files and upstream answers *)

Dict2(d, k, v) == IF v = None THEN d ELSE Put(d, k, v)

InitialRecords ==
    { Dict2(Dict2(Dict2(Dict2(Dict2(Dict2(
        IF tok[2] < 0 THEN Dict2(EmptyDict, "access_token", tok[1])
                      ELSE Put(Dict2(EmptyDict, "access_token", tok[1]), "expires_at", tok[2]),
        "client_id", cl[1]), "client_secret", cl[2]),
        "refresh_token", rt), "authorization_code", ac[1]), "code_verifier", ac[2]),
        "username", un) :
        tok \in {<<None, -1>>, <<"A0", -1>>, <<"A0", 60>>, <<"A0", 90>>},
        cl \in {<<None, "sec">>, <<"cid", "">>, <<"cid", "sec">>},
        rt \in {None, "R0"},
        ac \in {<<None, None>>, <<"code", None>>, <<"code", "ver">>},
        un \in {None, "u0"} }

\* JSON values of expires_in the token endpoint may send (null: int() raises)
ExpiresIns == {JNull} \cup {JInt(n) : n \in {0, 30, 60, 90}}

\* JSON bodies the token endpoint may answer with; expires_in may be absent
TokenBodies ==
    LET base == {EmptyDict} \cup {Put(EmptyDict, "expires_in", e) : e \in ExpiresIns}
    IN  { Dict2(Dict2(b, "access_token", at), "refresh_token", rt) :
            b \in base, at \in {None, "", "A1"}, rt \in {None, "", "R1"} }

TokenStatuses == {200, 400}

GetStatuses == {200, 401, 500}

\* watch-list entries: a node with id and title, and a node without id
Entry(id, title) == [k \in {"node"} |-> [j \in {"id", "title"} |-> IF j = "id" THEN id ELSE title]]
EntryNoId == [k \in {"node"} |-> [j \in {"title"} |-> "C"]]

\* the data the watch-list service answers a request with: the page at url u
\* of the list filtered by status, or, for the first URL without a query,
\* the first page of the unfiltered list
PageData(u, p) ==
    IF u = 1 /\ DOMAIN p = {}
    THEN <<Entry(9, "Z")>>
    ELSE IF u = 1 THEN <<Entry(1, "A"), EntryNoId>>
    ELSE <<Entry(u, "B")>>

\* next URLs the service may put in paging.next of the page at u (0: none)
NextUrls(u) == {0} \cup (IF u < MaxPages THEN {u + 1} ELSE {})

-----------------------------------------------------------------------------
(* Credential store and token validity *)

\* load_config: the dict the file holds ({} when there is no file)
load_config(d) == d

\* save_config: the file holds the dict
save_config(c) == c

\* token_is_valid with the comparison turned around
token_is_valid_reversed(c, t) ==
    LET at == Get(c, "access_token", None)
        exp == Get(c, "expires_at", 0)
    IN  IF Falsy(at) THEN FALSE ELSE t + 60 > exp

\* token_is_valid at clock t
token_is_valid(c, t) ==
    LET at == Get(c, "access_token", None)
        exp == Get(c, "expires_at", 0)
    IN  IF Falsy(at) THEN FALSE ELSE t + 60 < exp

\* apply_token_response storing the response's refresh_token unconditionally
apply_token_response_always_rt(c, d, resp, t) ==
    LET access_token == Get(resp, "access_token", None)
        refresh_token == Get(resp, "refresh_token", None)
        expires_in == Get(resp, "expires_in", JInt(0))
        c1 == Put(c, "access_token", access_token)
        c2 == Put(c1, "refresh_token", refresh_token)
        c3 == Put(c2, "expires_at", t + expires_in.v)
    IN  IF Falsy(access_token)
        THEN [config |-> c, disk |-> d, raised |-> "no_access_token"]
        ELSE IF expires_in.t # "int"
        THEN [config |-> c2, disk |-> d, raised |-> "int"]
        ELSE [config |-> c3, disk |-> save_config(c3), raised |-> "ok"]

\* apply_token_response extending the stored expiry instead of computing it
\* from the clock
apply_token_response_extend(c, d, resp, t) ==
    LET access_token == Get(resp, "access_token", None)
        refresh_token == Get(resp, "refresh_token", None)
        expires_in == Get(resp, "expires_in", JInt(0))
        c1 == Put(c, "access_token", access_token)
        c2 == IF ~Falsy(refresh_token) THEN Put(c1, "refresh_token", refresh_token) ELSE c1
        c3 == Put(c2, "expires_at", Get(c, "expires_at", t) + expires_in.v)
    IN  IF Falsy(access_token)
        THEN [config |-> c, disk |-> d, raised |-> "no_access_token"]
        ELSE IF expires_in.t # "int"
        THEN [config |-> c2, disk |-> d, raised |-> "int"]
        ELSE [config |-> c3, disk |-> save_config(c3), raised |-> "ok"]

\* apply_token_response saving the record before it computes expires_at
apply_token_response_save_early(c, d, resp, t) ==
    LET access_token == Get(resp, "access_token", None)
        refresh_token == Get(resp, "refresh_token", None)
        expires_in == Get(resp, "expires_in", JInt(0))
        c1 == Put(c, "access_token", access_token)
        c2 == IF ~Falsy(refresh_token) THEN Put(c1, "refresh_token", refresh_token) ELSE c1
        c3 == Put(c2, "expires_at", t + expires_in.v)
    IN  IF Falsy(access_token)
        THEN [config |-> c, disk |-> d, raised |-> "no_access_token"]
        ELSE IF expires_in.t # "int"
        THEN [config |-> c2, disk |-> save_config(c2), raised |-> "int"]
        ELSE [config |-> c3, disk |-> save_config(c3), raised |-> "ok"]

\* apply_token_response on the in-memory record c, the file d, at clock t:
\* the record and the file it leaves, and whether it raised
apply_token_response(c, d, resp, t) ==
    LET access_token == Get(resp, "access_token", None)
        refresh_token == Get(resp, "refresh_token", None)
        expires_in == Get(resp, "expires_in", JInt(0))
        c1 == Put(c, "access_token", access_token)
        c2 == IF ~Falsy(refresh_token) THEN Put(c1, "refresh_token", refresh_token) ELSE c1
        c3 == Put(c2, "expires_at", t + expires_in.v)
    IN  IF Falsy(access_token)
        THEN [config |-> c, disk |-> d, raised |-> "no_access_token"]
        ELSE IF expires_in.t # "int"
        THEN [config |-> c2, disk |-> d, raised |-> "int"]
        ELSE [config |-> c3, disk |-> save_config(c3), raised |-> "ok"]


-----------------------------------------------------------------------------
(* Cross-reference map and merge *)

\* int(s) for the top-level keys the documents below use; JNull: int() raises
IntOfKey(s) ==
    IF s = "1" THEN JInt(1)
    ELSE IF s = "2" THEN JInt(2)
    ELSE IF s = "5" THEN JInt(5)
    ELSE JNull

\* cross-reference documents, as the sequence of their (key, value) items
XrefDoc ==
    << [key |-> "5", val |-> [k \in {"mal_id", "imdb_id"} |-> IF k = "mal_id" THEN JInt(1) ELSE "tt1"]],
       [key |-> "2", val |-> [k \in {"tvdb_id", "imdb_id"} |-> IF k = "tvdb_id" THEN "72" ELSE ""]],
       [key |-> "x", val |-> [k \in {"imdb_id"} |-> "tt3"]] >>

XrefPayloads == { <<>>, XrefDoc }

\* sequences of at most n elements of S
SeqsUpTo(S, n) == UNION { [1..k -> S] : k \in 0..n }

\* items of cross-reference documents parsed directly: an embedded mal_id
\* that is an integer, null or absent, under a key that int() parses or not
XrefItems ==
    { [key |-> "5", val |-> [k \in {"mal_id", "imdb_id"} |-> IF k = "mal_id" THEN JInt(1) ELSE "tt1"]],
      [key |-> "2", val |-> [k \in {"tvdb_id", "imdb_id"} |-> IF k = "tvdb_id" THEN "72" ELSE ""]],
      [key |-> "x", val |-> [k \in {"imdb_id"} |-> "tt3"]],
      [key |-> "1", val |-> [k \in {"mal_id", "tvdb_id"} |-> IF k = "mal_id" THEN JNull ELSE "71"]],
      [key |-> "z", val |-> [k \in {"mal_id", "tvdb_id"} |-> IF k = "mal_id" THEN JInt(2) ELSE None]],
      [key |-> "y", val |-> [k \in {"mal_id"} |-> JNull]] }

\* the documents parsed directly: a JSON object has every key once
XrefDocs ==
    { d \in SeqsUpTo(XrefItems, MaxDocLen) :
        \A i, j \in 1..Len(d) : i # j => d[i].key # d[j].key }

\* the watch-lists handed to build_output_list directly: entries with an
\* identifier (0 among them), without identifier and without node
WatchLists ==
    SeqsUpTo({Entry(1, "A"), Entry(2, "B"), Entry(0, "D"), Entry(9, "Z"), EntryNoId, EmptyDict},
             MaxItems)

\* mal_id_of trying the top-level key before the embedded mal_id
mal_id_of_key_first(key, val) ==
    LET embedded == IF "mal_id" \in DOMAIN val /\ val["mal_id"].t = "int"
                    THEN val["mal_id"] ELSE JNull
    IN  IF IntOfKey(key).t = "int" THEN IntOfKey(key) ELSE embedded

\* fetch_anime_ids_map, lines 187-197: the integer an item is indexed under
\* (JNull: both int() raised and the item is skipped)
mal_id_of(key, val) ==
    LET embedded == IF "mal_id" \in DOMAIN val /\ val["mal_id"].t = "int"
                    THEN val["mal_id"] ELSE JNull
    IN  IF embedded.t = "int" THEN embedded ELSE IntOfKey(key)

\* fetch_anime_ids_map, lines 184-199: the loop over payload.items()
RECURSIVE mal_map_of(_, _)
mal_map_of(payload, acc) ==
    IF payload = <<>> THEN acc
    ELSE LET key == Head(payload).key
             val == Head(payload).val
             mal_id == mal_id_of(key, val)
         IN  IF mal_id.t # "int"
             THEN mal_map_of(Tail(payload), acc)
             ELSE mal_map_of(Tail(payload), Put(acc, mal_id.v, val))

fetch_anime_ids_map(payload) == mal_map_of(payload, EmptyDict)

\* build_output_list, lines 206-223
RECURSIVE build_output_list(_, _)
build_output_list(animelist_items, anime_ids_map) ==
    IF animelist_items = <<>> THEN <<>>
    ELSE LET item == Head(animelist_items)
             node == Get(item, "node", EmptyDict)
             rest == build_output_list(Tail(animelist_items), anime_ids_map)
         IN  IF "id" \notin DOMAIN node \/ node["id"] = 0
             THEN rest
             ELSE LET mal_id == node["id"]
                      entry == [k \in {"title", "malId"} |->
                                  IF k = "title" THEN Get(node, "title", None) ELSE mal_id]
                      mapped == Get(anime_ids_map, mal_id, EmptyDict)
                      e1 == IF "tvdb_id" \in DOMAIN mapped /\ ~Falsy(mapped["tvdb_id"])
                            THEN Put(entry, "id", mapped["tvdb_id"]) ELSE entry
                      e2 == IF "imdb_id" \in DOMAIN mapped /\ ~Falsy(mapped["imdb_id"])
                            THEN Put(e1, "imdb_id", mapped["imdb_id"]) ELSE e1
                  IN  <<e2>> \o rest

-----------------------------------------------------------------------------
(* Requests and responses *)

\* a page request: requests.get(url, headers={Authorization: Bearer token}, params=params)
Get_(u, p, t) == [url |-> u, params |-> p, token |-> t, status |-> 0]

NoGet == [url |-> 0, params |-> EmptyDict, token |-> None, status |-> 0]

NoRequest == [username |-> None, status |-> None]

NoResponse == [status |-> 0, error |-> "", code |-> 0, list |-> <<>>]

\* abort(400, ...)
ClientError == [status |-> 400, error |-> "username", code |-> 0, list |-> <<>>]

\* jsonify({"error": str(e)}), 500
ServerError(e, st) == [status |-> 500, error |-> e, code |-> st, list |-> <<>>]

\* jsonify(response_list)
Ok(list) == [status |-> 200, error |-> "", code |-> 0, list |-> list]

\* the query string of a request: username and status, each absent or given
QueryUsernames == {None, "u0"}
QueryStatuses == {None, "completed"}

-----------------------------------------------------------------------------
Init ==
    /\ disk \in InitialRecords
    /\ config = EmptyDict
    /\ now = 0
    /\ pc = "boot"
    /\ caller = "main"
    /\ etResult = "none"
    /\ etStart = EmptyDict
    /\ etNow = 0
    /\ tokenResp = NoneResp
    /\ applied = FALSE
    /\ etCalls = <<>>
    /\ opCalls = 0
    /\ username = None
    /\ status = None
    /\ token = None
    /\ url = 0
    /\ params = EmptyDict
    /\ items = <<>>
    /\ pages = <<>>
    /\ recoveries = 0
    /\ pageGets = 0
    /\ pageDiscards = 0
    /\ lastGet = NoGet
    /\ failedGet = NoGet
    /\ request = NoRequest
    /\ xrefPayload = <<>>
    /\ idsMap = EmptyDict
    /\ usedCodes = {}
    /\ response = NoResponse

\* __main__, lines 250-254: load_config(), then ensure_token() inside try/except
Main ==
    /\ pc = "boot"
    /\ config' = load_config(disk)
    /\ pc' = "et_start"
    /\ caller' = "main"
    /\ UNCHANGED <<disk, now, etLocals, opCalls, fetchLocals, fetchHistory, request, response, routeLocals, usedCodes>>

\* request_token_with_refresh: the JSON of a 200 answer, None otherwise
request_token_with_refresh(st, body) == IF st = 200 THEN Some(body) ELSE NoneResp

\* request_token_with_code: the JSON of a 200 answer, None otherwise
request_token_with_code(st, body) == IF st = 200 THEN Some(body) ELSE NoneResp

\* ensure_token, lines 106-116: the authorization-code flow, entered when the
\* refresh flow is absent or failed; posts the exchange or raises
try_authorization_code(c) ==
    LET authorization_code == Get(c, "authorization_code", None)
        code_verifier == Get(c, "code_verifier", None)
    IN  IF ~Falsy(authorization_code) /\ ~Falsy(code_verifier)
        THEN /\ etCalls' = Append(etCalls, "code")
             /\ usedCodes' = usedCodes \cup {authorization_code}
             /\ opCalls' = opCalls + 1
             /\ pc' = "et_code"
             /\ etResult' = "none"
        ELSE /\ pc' = "et_ret"
             /\ etResult' = "no_token"
             /\ UNCHANGED <<etCalls, opCalls, usedCodes>>

\* ensure_token trying the authorization code before the refresh token
ensure_token_code_first ==
    /\ pc = "et_start"
    /\ LET c == load_config(disk)
           client_id == Get(c, "client_id", None)
           client_secret == Get(c, "client_secret", None)
           refresh_token == Get(c, "refresh_token", None)
           authorization_code == Get(c, "authorization_code", None)
           code_verifier == Get(c, "code_verifier", None)
       IN  /\ config' = c
           /\ etStart' = c
           /\ etNow' = now
           /\ tokenResp' = NoneResp
           /\ applied' = FALSE
           /\ IF token_is_valid(c, now)
              THEN pc' = "et_ret" /\ etResult' = "ok" /\ UNCHANGED <<etCalls, opCalls, usedCodes>>
              ELSE IF Falsy(client_id) \/ Falsy(client_secret)
              THEN pc' = "et_ret" /\ etResult' = "no_client" /\ UNCHANGED <<etCalls, opCalls, usedCodes>>
              ELSE IF ~Falsy(authorization_code) /\ ~Falsy(code_verifier)
              THEN try_authorization_code(c)
              ELSE IF ~Falsy(refresh_token)
              THEN /\ etCalls' = Append(etCalls, "refresh")
                   /\ UNCHANGED usedCodes
                   /\ opCalls' = opCalls + 1
                   /\ pc' = "et_refresh"
                   /\ etResult' = "none"
              ELSE try_authorization_code(c)
    /\ UNCHANGED <<disk, now, caller, fetchLocals, fetchHistory, request, response, routeLocals>>

\* ensure_token, lines 88-101: up to its return, its raise or its first exchange
ensure_token ==
    /\ pc = "et_start"
    /\ LET c == load_config(disk)
           client_id == Get(c, "client_id", None)
           client_secret == Get(c, "client_secret", None)
           refresh_token == Get(c, "refresh_token", None)
       IN  /\ config' = c
           /\ etStart' = c
           /\ etNow' = now
           /\ tokenResp' = NoneResp
           /\ applied' = FALSE
           /\ IF token_is_valid(c, now)
              THEN pc' = "et_ret" /\ etResult' = "ok" /\ UNCHANGED <<etCalls, opCalls, usedCodes>>
              ELSE IF Falsy(client_id) \/ Falsy(client_secret)
              THEN pc' = "et_ret" /\ etResult' = "no_client" /\ UNCHANGED <<etCalls, opCalls, usedCodes>>
              ELSE IF ~Falsy(refresh_token)
              THEN /\ etCalls' = Append(etCalls, "refresh")
                   /\ UNCHANGED usedCodes
                   /\ opCalls' = opCalls + 1
                   /\ pc' = "et_refresh"
                   /\ etResult' = "none"
              ELSE try_authorization_code(c)
    /\ UNCHANGED <<disk, now, caller, fetchLocals, fetchHistory, request, response, routeLocals>>

\* ensure_token, lines 102-104 and 112-114: a true token_resp is applied and
\* ensure_token returns, or apply_token_response raises
apply_and_return(r) ==
    LET a == apply_token_response(config, disk, r.json, now)
    IN  /\ config' = a.config
        /\ disk' = a.disk
        /\ etResult' = a.raised
        /\ applied' = (a.raised = "ok")
        /\ pc' = "et_ret"
        /\ UNCHANGED <<etCalls, opCalls, usedCodes>>

\* refresh_response raising when the refresh exchange gave nothing
refresh_response_fail_fast ==
    /\ pc = "et_refresh"
    /\ \E st \in TokenStatuses, body \in TokenBodies :
         LET r == request_token_with_refresh(st, body)
         IN  /\ tokenResp' = r
             /\ IF Truthy(r)
                THEN apply_and_return(r)
                ELSE /\ pc' = "et_ret"
                     /\ etResult' = "no_token"
                     /\ UNCHANGED <<config, disk, applied, etCalls, opCalls, usedCodes>>
    /\ UNCHANGED <<now, caller, etStart, etNow, fetchLocals, fetchHistory, request, response, routeLocals>>

\* the token endpoint answers the refresh exchange (lines 59-64, 102-116)
refresh_response ==
    /\ pc = "et_refresh"
    /\ \E st \in TokenStatuses, body \in TokenBodies :
         LET r == request_token_with_refresh(st, body)
         IN  /\ tokenResp' = r
             /\ IF Truthy(r)
                THEN apply_and_return(r)
                ELSE /\ try_authorization_code(config)
                     /\ UNCHANGED <<config, disk, applied>>
    /\ UNCHANGED <<now, caller, etStart, etNow, fetchLocals, fetchHistory, request, response, routeLocals>>

\* the token endpoint answers the authorization-code exchange (lines 75-80, 112-116)
code_response ==
    /\ pc = "et_code"
    /\ \E st \in TokenStatuses, body \in TokenBodies :
         LET r == request_token_with_code(st, body)
         IN  /\ tokenResp' = r
             /\ IF Truthy(r)
                THEN apply_and_return(r)
                ELSE /\ pc' = "et_ret"
                     /\ etResult' = "no_token"
                     /\ UNCHANGED <<config, disk, applied, etCalls, opCalls, usedCodes>>
    /\ UNCHANGED <<now, caller, etStart, etNow, fetchLocals, fetchHistory, request, response, routeLocals>>

\* the frame of a finished ensure_token is gone
EtFrameGone ==
    /\ etResult' = "none"
    /\ etStart' = EmptyDict
    /\ etNow' = 0
    /\ tokenResp' = NoneResp
    /\ applied' = FALSE
    /\ etCalls' = <<>>

\* the frame of a finished fetch_all_animelist is gone
FetchFrameGone ==
    /\ token' = None
    /\ url' = 0
    /\ params' = EmptyDict
    /\ items' = <<>>
    /\ pages' = <<>>

\* __main__, lines 253-257: the startup ensure_token returned or raised
\* (the exception is logged); the server starts
main_resume ==
    /\ pc = "et_ret"
    /\ caller = "main"
    /\ pc' = "idle"
    /\ EtFrameGone
    /\ UNCHANGED <<config, disk, now, caller, opCalls, fetchLocals, fetchHistory, request, response, routeLocals, usedCodes>>

\* time passes while the program waits for a request or for an answer
Tick ==
    /\ pc \in {"idle", "et_refresh", "et_code", "fetch_get", "fetch_retry", "xref"}
    /\ now + TickStep <= MaxNow
    /\ now' = now + TickStep
    /\ UNCHANGED <<config, disk, pc, caller, etLocals, opCalls, fetchLocals, fetchHistory,
                   request, response, routeLocals, usedCodes>>

\* animelist_route without the check of username
animelist_route_unchecked ==
    /\ pc = "idle"
    /\ \E qUsername \in QueryUsernames, qStatus \in QueryStatuses :
         LET name == IF ~Falsy(qUsername) THEN qUsername ELSE Get(config, "username", None)
             st == IF qStatus = None THEN "watching" ELSE qStatus
         IN  /\ request' = [username |-> qUsername, status |-> qStatus]
             /\ response' = NoResponse
             /\ pc' = "et_start"
             /\ caller' = "fetch"
             /\ username' = name
             /\ status' = st
    /\ opCalls' = 0
    /\ recoveries' = 0
    /\ pageGets' = 0
    /\ pageDiscards' = 0
    /\ lastGet' = NoGet
    /\ failedGet' = NoGet
    /\ UNCHANGED <<config, disk, now, etLocals, token, url, params, items, pages, routeLocals, usedCodes>>

\* animelist_route, lines 232-241: resolve username and status, then abort
\* with 400 or enter fetch_all_animelist, which first calls ensure_token
animelist_route ==
    /\ pc = "idle"
    /\ \E qUsername \in QueryUsernames, qStatus \in QueryStatuses :
         LET name == IF ~Falsy(qUsername) THEN qUsername ELSE Get(config, "username", None)
             st == IF qStatus = None THEN "watching" ELSE qStatus
         IN  /\ request' = [username |-> qUsername, status |-> qStatus]
             /\ IF Falsy(name)
                THEN /\ response' = ClientError
                     /\ pc' = "idle"
                     /\ UNCHANGED <<caller, username, status>>
                ELSE /\ response' = NoResponse
                     /\ pc' = "et_start"
                     /\ caller' = "fetch"
                     /\ username' = name
                     /\ status' = st
    /\ opCalls' = 0
    /\ recoveries' = 0
    /\ pageGets' = 0
    /\ pageDiscards' = 0
    /\ lastGet' = NoGet
    /\ failedGet' = NoGet
    /\ UNCHANGED <<config, disk, now, etLocals, token, url, params, items, pages, routeLocals, usedCodes>>

\* fetch_all_animelist, lines 145-149: the first ensure_token returned
fetch_start ==
    /\ pc = "et_ret"
    /\ caller = "fetch"
    /\ etResult = "ok"
    /\ token' = Get(config, "access_token", None)
    /\ url' = 1
    /\ params' = [k \in {"status", "limit"} |-> IF k = "status" THEN status ELSE 100]
    /\ items' = <<>>
    /\ pc' = "fetch_loop"
    /\ EtFrameGone
    /\ UNCHANGED <<config, disk, now, caller, opCalls, username, status, fetchHistory,
                   request, response, routeLocals, usedCodes>>

\* route_raise answering with the entries accumulated so far
route_raise_partial(e, st) ==
    /\ response' = [ServerError(e, st) EXCEPT !.list = build_output_list(items, EmptyDict)]
    /\ pc' = "idle"
    /\ username' = None
    /\ status' = None
    /\ FetchFrameGone

\* animelist_route, lines 245-247: an exception reached the handler
route_raise(e, st) ==
    /\ response' = ServerError(e, st)
    /\ pc' = "idle"
    /\ username' = None
    /\ status' = None
    /\ FetchFrameGone

\* animelist_route, lines 245-247: an ensure_token called by the fetch raised
route_except ==
    /\ pc = "et_ret"
    /\ caller \in {"fetch", "recover"}
    /\ etResult # "ok"
    /\ route_raise(etResult, 0)
    /\ EtFrameGone
    /\ UNCHANGED <<config, disk, now, caller, opCalls, recoveries, pageGets, pageDiscards,
                   lastGet, failedGet, request, routeLocals, usedCodes>>

\* fetch_all_animelist, lines 151-152 and 176, animelist_route line 242:
\* the loop test; sends the page request, or returns items and the route
\* goes on to fetch_anime_ids_map
fetch_loop ==
    /\ pc = "fetch_loop"
    /\ IF url # 0
       THEN /\ lastGet' = Get_(url, params, token)
            /\ pageGets' = pageGets + 1
            /\ pc' = "fetch_get"
       ELSE /\ pc' = "xref"
            /\ UNCHANGED <<lastGet, pageGets>>
    /\ opCalls' = opCalls + 1
    /\ UNCHANGED <<config, disk, now, caller, etLocals, fetchLocals, pages, recoveries,
                   pageDiscards, failedGet, request, response, routeLocals, usedCodes>>

\* accept_page putting the page's entries in front of the accumulated ones
accept_page_prepend(st, data, nxt) ==
    IF st # 200
    THEN /\ route_raise("fetch", st)
         /\ UNCHANGED <<pageGets, pageDiscards, failedGet>>
    ELSE /\ items' = data \o items
         /\ pages' = Append(pages, data)
         /\ url' = nxt
         /\ pageGets' = 0
         /\ pageDiscards' = 0
         /\ failedGet' = NoGet
         /\ pc' = "fetch_loop"
         /\ params' = EmptyDict
         /\ UNCHANGED <<response, username, status, token>>

\* accept_page sending the page request again after a server error
accept_page_retry_error(st, data, nxt) ==
    IF st = 500 /\ pageGets < 2
    THEN /\ pc' = "fetch_loop"
         /\ UNCHANGED <<items, pages, url, params, pageGets, pageDiscards, failedGet,
                        response, username, status, token>>
    ELSE IF st # 200
    THEN /\ route_raise("fetch", st)
         /\ UNCHANGED <<pageGets, pageDiscards, failedGet>>
    ELSE /\ items' = items \o data
         /\ pages' = Append(pages, data)
         /\ url' = nxt
         /\ pageGets' = 0
         /\ pageDiscards' = 0
         /\ failedGet' = NoGet
         /\ pc' = "fetch_loop"
         /\ params' = EmptyDict
         /\ UNCHANGED <<response, username, status, token>>

\* fetch_all_animelist, lines 165-174: the status check, then the page's
\* entries and next URL
accept_page(st, data, nxt) ==
    IF st # 200
    THEN /\ route_raise("fetch", st)
         /\ UNCHANGED <<pageGets, pageDiscards, failedGet>>
    ELSE /\ items' = items \o data
         /\ pages' = Append(pages, data)
         /\ url' = nxt
         /\ pageGets' = 0
         /\ pageDiscards' = 0
         /\ failedGet' = NoGet
         /\ pc' = "fetch_loop"
         /\ params' = EmptyDict
         /\ UNCHANGED <<response, username, status, token>>

\* fetch_response discarding the access token in memory without save_config
fetch_response_no_save ==
    /\ pc = "fetch_get"
    /\ \E st \in GetStatuses, nxt \in NextUrls(url) :
         /\ lastGet' = [lastGet EXCEPT !.status = st]
         /\ IF st = 401
            THEN /\ config' = Pop(config, "access_token")
                 /\ disk' = disk
                 /\ recoveries' = recoveries + 1
                 /\ pageDiscards' = pageDiscards + 1
                 /\ failedGet' = [lastGet EXCEPT !.status = st]
                 /\ params' = EmptyDict
                 /\ pc' = "et_start"
                 /\ caller' = "recover"
                 /\ UNCHANGED <<items, pages, url, response, pageGets, username, status, token>>
            ELSE /\ accept_page(st, PageData(lastGet.url, lastGet.params), nxt)
                 /\ UNCHANGED <<config, disk, recoveries, caller>>
    /\ UNCHANGED <<now, etLocals, opCalls, request, routeLocals, usedCodes>>

\* fetch_all_animelist, lines 152-160 and 165-174: the answer to a page request
fetch_response ==
    /\ pc = "fetch_get"
    /\ \E st \in GetStatuses, nxt \in NextUrls(url) :
         /\ lastGet' = [lastGet EXCEPT !.status = st]
         /\ IF st = 401
            THEN /\ config' = Pop(config, "access_token")
                 /\ disk' = save_config(Pop(config, "access_token"))
                 /\ recoveries' = recoveries + 1
                 /\ pageDiscards' = pageDiscards + 1
                 /\ failedGet' = [lastGet EXCEPT !.status = st]
                 /\ params' = EmptyDict
                 /\ pc' = "et_start"
                 /\ caller' = "recover"
                 /\ UNCHANGED <<items, pages, url, response, pageGets, username, status, token>>
            ELSE /\ accept_page(st, PageData(lastGet.url, lastGet.params), nxt)
                 /\ UNCHANGED <<config, disk, recoveries, caller>>
    /\ UNCHANGED <<now, etLocals, opCalls, request, routeLocals, usedCodes>>

\* fetch_all_animelist, lines 161-163: the recovery's ensure_token returned;
\* the page is requested again
fetch_recovered ==
    /\ pc = "et_ret"
    /\ caller = "recover"
    /\ etResult = "ok"
    /\ token' = Get(config, "access_token", None)
    /\ lastGet' = Get_(url, EmptyDict, Get(config, "access_token", None))
    /\ pageGets' = pageGets + 1
    /\ opCalls' = opCalls + 1
    /\ pc' = "fetch_retry"
    /\ EtFrameGone
    /\ UNCHANGED <<config, disk, now, caller, username, status, url, params, items, pages,
                   recoveries, pageDiscards, failedGet, request, response, routeLocals, usedCodes>>

\* fetch_retry_response running the 401 recovery again (`while` for `if`)
fetch_retry_response_recover_again ==
    /\ pc = "fetch_retry"
    /\ \E st \in GetStatuses, nxt \in NextUrls(url) :
         /\ lastGet' = [lastGet EXCEPT !.status = st]
         /\ IF st = 401 /\ pageDiscards < 2
            THEN /\ config' = Pop(config, "access_token")
                 /\ disk' = save_config(Pop(config, "access_token"))
                 /\ recoveries' = recoveries + 1
                 /\ pageDiscards' = pageDiscards + 1
                 /\ failedGet' = [lastGet EXCEPT !.status = st]
                 /\ params' = EmptyDict
                 /\ pc' = "et_start"
                 /\ caller' = "recover"
                 /\ UNCHANGED <<items, pages, url, response, pageGets, username, status, token>>
            ELSE /\ accept_page(st, PageData(lastGet.url, lastGet.params), nxt)
                 /\ UNCHANGED <<config, disk, recoveries, caller>>
    /\ UNCHANGED <<now, etLocals, opCalls, request, routeLocals, usedCodes>>

\* fetch_retry_response sending the page request a third time on a second 401
fetch_retry_response_resend ==
    /\ pc = "fetch_retry"
    /\ \E st \in GetStatuses, nxt \in NextUrls(url) :
         IF st = 401 /\ pageGets < 3
         THEN /\ lastGet' = Get_(url, EmptyDict, token)
              /\ pageGets' = pageGets + 1
              /\ opCalls' = opCalls + 1
              /\ UNCHANGED <<pc, items, pages, url, params, pageDiscards, failedGet, response,
                             username, status, token>>
         ELSE /\ lastGet' = [lastGet EXCEPT !.status = st]
              /\ accept_page(st, PageData(lastGet.url, lastGet.params), nxt)
              /\ UNCHANGED opCalls
    /\ UNCHANGED <<config, disk, now, caller, etLocals, recoveries, request, routeLocals, usedCodes>>

\* fetch_all_animelist, lines 163-174: the answer to the repeated page request
fetch_retry_response ==
    /\ pc = "fetch_retry"
    /\ \E st \in GetStatuses, nxt \in NextUrls(url) :
         /\ lastGet' = [lastGet EXCEPT !.status = st]
         /\ accept_page(st, PageData(lastGet.url, lastGet.params), nxt)
    /\ UNCHANGED <<config, disk, now, caller, etLocals, opCalls, recoveries, request, routeLocals, usedCodes>>

\* animelist_route, line 242, with fetch_anime_ids_map lines 180-182: the
\* answer to the cross-reference request; raise_for_status raises, or the
\* payload is parsed
xref_response ==
    /\ pc = "xref"
    /\ \E ok \in BOOLEAN, payload \in XrefPayloads :
         IF ok
         THEN /\ xrefPayload' = payload
              /\ pc' = "map"
              /\ UNCHANGED <<fetchLocals, pages, response>>
         ELSE /\ route_raise("xref", 0)
              /\ UNCHANGED xrefPayload
    /\ UNCHANGED <<config, disk, now, caller, etLocals, opCalls, recoveries, pageGets,
                   pageDiscards, lastGet, failedGet, request, idsMap, usedCodes>>

\* fetch_anime_ids_map, lines 183-199: the map is built from the payload
build_map ==
    /\ pc = "map"
    /\ idsMap' = fetch_anime_ids_map(xrefPayload)
    /\ pc' = "merge"
    /\ UNCHANGED <<config, disk, now, caller, etLocals, opCalls, fetchLocals, fetchHistory,
                   request, response, xrefPayload, usedCodes>>

\* animelist_route, lines 243-244: the merged list is answered with status 200
route_respond ==
    /\ pc = "merge"
    /\ response' = Ok(build_output_list(items, idsMap))
    /\ pc' = "idle"
    /\ username' = None
    /\ status' = None
    /\ FetchFrameGone
    /\ xrefPayload' = <<>>
    /\ idsMap' = EmptyDict
    /\ UNCHANGED <<config, disk, now, caller, etLocals, opCalls, recoveries, pageGets,
                   pageDiscards, lastGet, failedGet, request, usedCodes>>

Next ==
    \/ Main
    \/ ensure_token
    \/ refresh_response
    \/ code_response
    \/ main_resume
    \/ animelist_route
    \/ fetch_start
    \/ route_except
    \/ fetch_loop
    \/ fetch_response
    \/ fetch_recovered
    \/ fetch_retry_response
    \/ xref_response
    \/ build_map
    \/ route_respond
    \/ Tick

Spec == Init /\ [][Next]_vars

\* the steps of the program and the answers of the services it waits for:
\* every step of Next but the passing of time and the arrival of a request
Progress ==
    \/ Main
    \/ ensure_token
    \/ refresh_response
    \/ code_response
    \/ main_resume
    \/ fetch_start
    \/ route_except
    \/ fetch_loop
    \/ fetch_response
    \/ fetch_recovered
    \/ fetch_retry_response
    \/ xref_response
    \/ build_map
    \/ route_respond

\* the program runs on and every network call is answered (each call has
\* timeout=30, lines 59, 75, 153, 163, 180, so it returns or raises)
FairSpec == Spec /\ WF_vars(Progress)

\* a credential record with which a fetch returns
FetchedRecord ==
    [k \in {"access_token", "expires_at", "client_id", "client_secret", "username"} |->
        IF k = "access_token" THEN "A0"
        ELSE IF k = "expires_at" THEN 90
        ELSE IF k = "client_id" THEN "cid"
        ELSE IF k = "client_secret" THEN "sec"
        ELSE "u0"]

\* animelist_route, lines 241-243, between the calls it makes:
\* fetch_all_animelist has returned some watch-list in one page and the
\* cross-reference service has answered with some document
InitMerge ==
    /\ disk = FetchedRecord
    /\ config = FetchedRecord
    /\ now = 0
    /\ pc = "map"
    /\ caller = "fetch"
    /\ etResult = "none"
    /\ etStart = EmptyDict
    /\ etNow = 0
    /\ tokenResp = NoneResp
    /\ applied = FALSE
    /\ etCalls = <<>>
    /\ opCalls = 2
    /\ username = "u0"
    /\ status = "watching"
    /\ token = "A0"
    /\ url = 0
    /\ params = EmptyDict
    /\ items \in WatchLists
    /\ pages = <<items>>
    /\ recoveries = 0
    /\ pageGets = 0
    /\ pageDiscards = 0
    /\ lastGet = [Get_(1, [k \in {"status", "limit"} |-> IF k = "status" THEN "watching" ELSE 100], "A0")
                    EXCEPT !.status = 200]
    /\ failedGet = NoGet
    /\ request = [username |-> None, status |-> None]
    /\ response = NoResponse
    /\ xrefPayload \in XrefDocs
    /\ idsMap = EmptyDict
    /\ usedCodes = {}

NextMerge ==
    \/ build_map
    \/ route_respond

\* fetch_anime_ids_map's loop and build_output_list applied to the watch-lists
\* and documents of the bounds
SpecMerge == InitMerge /\ [][NextMerge]_vars

-----------------------------------------------------------------------------
(* Properties *)

HoldsToken(c) == ~Falsy(Get(c, "access_token", None))

\* an ensure_token is past its first step: etStart, etNow and etCalls are its own
EtRunning == pc \in {"et_refresh", "et_code", "et_ret"}

\* fetch_all_animelist is past its first ensure_token and has not ended
InFetch ==
    \/ pc \in {"fetch_loop", "fetch_get", "fetch_retry", "xref"}
    \/ pc \in {"et_start", "et_refresh", "et_code", "et_ret"} /\ caller = "recover"

\* C1: whenever ensure_token returns successfully, the record holds an access
\* token that token_is_valid accepts at that moment, and the file equals the
\* in-memory record.
C1_ReturnsValidPersistedToken ==
    (pc = "et_ret" /\ etResult = "ok") => (token_is_valid(config, now) /\ disk = config)

\* C2 as stated: a record that holds an access_token with expires_at >= now+60
\* (the clock when ensure_token starts) makes ensure_token return without any
\* token exchange.
C2_NoNetworkAtOrAboveMargin ==
    (EtRunning /\ HoldsToken(etStart) /\ Get(etStart, "expires_at", 0) >= etNow + 60)
        => etCalls = <<>>

\* C2 amended: a record that holds an access_token with expires_at strictly
\* greater than now+60 makes ensure_token return without any token exchange.
C2_NoNetworkAboveMargin ==
    (EtRunning /\ HoldsToken(etStart) /\ Get(etStart, "expires_at", 0) > etNow + 60)
        => (pc = "et_ret" /\ etResult = "ok" /\ etCalls = <<>> /\ ~applied)

C2_Witness ==
    /\ pc = "et_ret" /\ etResult = "ok" /\ etCalls = <<>>
    /\ HoldsToken(etStart) /\ Get(etStart, "expires_at", 0) > etNow + 60
    /\ caller = "fetch"

C4_SingleRetryPerPage ==
    /\ pageGets <= 2
    /\ pageDiscards <= 1
    /\ (pageGets = 2 => pageDiscards = 1)
    /\ (lastGet.status = 401 => pageDiscards = 1)
    /\ (pc = "fetch_retry" => /\ pageGets = 2
                              /\ failedGet.status = 401
                              /\ failedGet.url = lastGet.url)
    /\ ((pageGets = 2 /\ lastGet.status = 401)
            => (pc = "idle" /\ response = ServerError("fetch", 401)))

C4_Witness ==
    /\ pc = "idle" /\ pageGets = 2 /\ pageDiscards = 1 /\ lastGet.status = 401
    /\ response = ServerError("fetch", 401)

\* C5: the request sent again after a 401 has the URL and the query parameters
\* of the request that failed, and the bearer token just acquired.
C5_RetrySameRequest ==
    pc = "fetch_retry" => /\ lastGet.url = failedGet.url
                          /\ lastGet.params = failedGet.params
                          /\ lastGet.token = Get(config, "access_token", None)

\* C6: an ensure_token that starts with an access token that is not valid and
\* with client_id, client_secret and refresh_token posts the refresh exchange
\* first; no ensure_token posts more than one refresh exchange or more than
\* one authorization-code exchange, nor a refresh after an authorization code.
C6_RefreshBeforeCode ==
    /\ etCalls \in {<<>>, <<"refresh">>, <<"code">>, <<"refresh", "code">>}
    /\ (EtRunning /\ ~token_is_valid(etStart, etNow)
          /\ ~Falsy(Get(etStart, "client_id", None))
          /\ ~Falsy(Get(etStart, "client_secret", None))
          /\ ~Falsy(Get(etStart, "refresh_token", None)))
        => etCalls \in {<<"refresh">>, <<"refresh", "code">>}

C6_Witness ==
    /\ pc = "et_code" /\ etCalls = <<"refresh", "code">>
    /\ ~Falsy(Get(etStart, "refresh_token", None))

RECURSIVE Flatten(_)
Flatten(ss) == IF ss = <<>> THEN <<>> ELSE Head(ss) \o Flatten(Tail(ss))

\* C7: when fetch_all_animelist returns, items is the concatenation, in request
\* order, of the data of the pages it accepted; the i-th of them is the
\* service's page at the i-th URL of the chain, and the last had no next URL.
C7_ResultIsConcatenation ==
    pc = "xref" =>
        /\ url = 0
        /\ Len(pages) >= 1
        /\ items = Flatten(pages)
        /\ \A i \in 1..Len(pages) :
              \E p \in {EmptyDict, [k \in {"status", "limit"} |-> IF k = "status" THEN status ELSE 100]} :
                  pages[i] = PageData(i, p)

C7_Witness == pc = "xref" /\ Len(pages) = 2 /\ recoveries >= 1 /\ Len(items) = 3

\* the key k is present in both records with one value, or absent from both
SameField(c1, c2, k) ==
    /\ (k \in DOMAIN c1) <=> (k \in DOMAIN c2)
    /\ (k \in DOMAIN c1) => (c1[k] = c2[k])

\* a step in which ensure_token called apply_token_response
ApplyStep == pc \in {"et_refresh", "et_code"} /\ pc' = "et_ret" /\ Truthy(tokenResp')

\* C8: applying a token response leaves client_id, client_secret,
\* authorization_code, code_verifier and username as they were; a response
\* without refresh_token leaves the stored refresh_token as it was; an
\* application that completes replaces access_token and expires_at by the
\* response's token and now + expires_in, in memory and in the file.
C8_ApplyFrame ==
    [][ApplyStep =>
         /\ \A k \in {"client_id", "client_secret", "authorization_code",
                      "code_verifier", "username"} :
               SameField(config, config', k) /\ SameField(disk, disk', k)
         /\ ("refresh_token" \notin DOMAIN tokenResp'.json
               => SameField(config, config', "refresh_token")
                  /\ SameField(disk, disk', "refresh_token"))
         /\ (applied' =>
               /\ Get(config', "access_token", None) = tokenResp'.json["access_token"]
               /\ Get(config', "expires_at", 0 - 1)
                    = now + Get(tokenResp'.json, "expires_in", JInt(0)).v
               /\ disk' = config')
      ]_vars

C8_Witness ==
    /\ pc = "et_ret" /\ applied
    /\ "refresh_token" \notin DOMAIN tokenResp.json
    /\ Get(etStart, "refresh_token", None) = "R0"
    /\ Get(config, "refresh_token", None) = "R0"
    /\ Get(config, "access_token", None) # Get(etStart, "access_token", None)

\* C9: applying the response that was just applied once more, at the same
\* clock, raises nothing and leaves the record and the file as they are.
C9_ApplyIdempotent ==
    (pc = "et_ret" /\ applied) =>
        LET again == apply_token_response(config, disk, tokenResp.json, now)
        IN  again.raised = "ok" /\ again.config = config /\ again.disk = disk

C9_Witness ==
    /\ pc = "et_ret" /\ applied
    /\ Get(tokenResp.json, "expires_in", JInt(0)).v > 0
    /\ "refresh_token" \in DOMAIN tokenResp.json
    /\ "expires_at" \in DOMAIN etStart
    /\ config # etStart

\* C10: a request without a username, when config has no default username, is
\* answered 400 at once: no network call is issued and neither the record in
\* memory nor the file changes.
C10_MissingUsername ==
    [][(pc = "idle" /\ now' = now
          /\ Falsy(request'.username) /\ Falsy(Get(config, "username", None)))
        => (/\ response' = ClientError
            /\ pc' = "idle"
            /\ opCalls' = 0
            /\ config' = config
            /\ disk' = disk)
      ]_vars

C10_Witness ==
    /\ pc = "idle" /\ response = ClientError /\ opCalls = 0
    /\ Falsy(request.username) /\ Falsy(Get(config, "username", None))
    /\ disk = config

\* a step in which an operation of the /animelist request in progress failed:
\* an ensure_token called by the fetch raised, a page request was answered
\* with a status that is not accepted, or the handler went from the
\* cross-reference request straight to its answer
RouteStepFailed ==
    \/ pc = "et_ret" /\ caller \in {"fetch", "recover"} /\ etResult # "ok"
    \/ pc = "fetch_get" /\ lastGet'.status \notin {0, 200, 401}
    \/ pc = "fetch_retry" /\ lastGet'.status \notin {0, 200}
    \/ pc = "xref" /\ pc' = "idle"

\* C11: the /animelist endpoint never answers a partial list: a step in which
\* token acquisition, a page request (the first or a later one) or the
\* cross-reference request fails answers 500 with none of the accumulated
\* entries; every answer other than 200 carries no entry; and a 200 is
\* answered only by the merge step, after a page without next URL was
\* accepted, with the merge of all accepted pages and the loaded map.
C11_NoPartialList ==
    [][ /\ RouteStepFailed =>
              /\ pc' = "idle"
              /\ response'.status = 500
              /\ response'.list = <<>>
        /\ response'.status # 200 => response'.list = <<>>
        /\ (response'.status = 200 /\ response.status # 200) =>
              /\ pc = "merge"
              /\ url = 0
              /\ lastGet.status = 200
              /\ Len(pages) >= 1
              /\ xrefPayload \in XrefPayloads
              /\ idsMap = fetch_anime_ids_map(xrefPayload)
              /\ response'.list = build_output_list(Flatten(pages), idsMap) ]_vars

\* the second page failed after the first was accepted, and the answer is
\* the 500 error without entries
C11_Witness ==
    /\ pc = "idle"
    /\ response.status = 500
    /\ response.code = 500
    /\ lastGet.url = 2
    /\ lastGet.status = 500
    /\ response.list = <<>>

\* the watch-list entry has an identifier in its node
HasIdentifier(item) == "node" \in DOMAIN item /\ "id" \in DOMAIN item["node"]

\* out is, entry by entry and in order, what the entries of kept become
\* under the map: title and malId always, id and imdb_id exactly when the
\* matched record has a present, non-empty tvdb_id and imdb_id
MergedFrom(kept, map, out) ==
    /\ Len(out) = Len(kept)
    /\ \A i \in 1..Len(kept) :
          LET node == kept[i]["node"]
              matched == node["id"] \in DOMAIN map
              rec == IF matched THEN map[node["id"]] ELSE EmptyDict
              tvdb == "tvdb_id" \in DOMAIN rec /\ rec["tvdb_id"] \notin {None, ""}
              imdb == "imdb_id" \in DOMAIN rec /\ rec["imdb_id"] \notin {None, ""}
          IN  /\ out[i]["title"] = node["title"]
              /\ out[i]["malId"] = node["id"]
              /\ DOMAIN out[i] = {"title", "malId"} \cup (IF tvdb THEN {"id"} ELSE {})
                                                     \cup (IF imdb THEN {"imdb_id"} ELSE {})
              /\ tvdb => out[i]["id"] = rec["tvdb_id"]
              /\ imdb => out[i]["imdb_id"] = rec["imdb_id"]

\* C12: build_output_list returns, in input order, exactly one entry for each
\* input entry that has an identifier in its node and none for the others; an
\* entry without match in the map carries only title and malId, and id and
\* imdb_id appear only when the matched record has a present, non-empty
\* tvdb_id and imdb_id.
C12_OneEntryPerIdentified ==
    [][ pc = "merge" =>
          MergedFrom(SelectSeq(items, HasIdentifier), idsMap, response'.list) ]_vars

\* the integer the claim gives an item of the document: the embedded mal_id
\* when present and an integer, otherwise the top-level key when it parses
ClaimedKey(e) ==
    IF "mal_id" \in DOMAIN e.val /\ e.val["mal_id"].t = "int"
    THEN e.val["mal_id"]
    ELSE IntOfKey(e.key)

\* C13: fetch_anime_ids_map indexes every item of the document under exactly
\* one integer or skips it: under its embedded mal_id when that is present and
\* an integer (also when the top-level key parses), otherwise under its
\* top-level key parsed as an integer, and it is skipped when neither parses;
\* the map holds, under each such integer, the last item indexed under it.
C13_IndexedUnderOneKey ==
    pc = "merge" =>
        LET n == Len(xrefPayload)
            indexed == { i \in 1..n : ClaimedKey(xrefPayload[i]).t = "int" }
        IN  /\ DOMAIN idsMap = { ClaimedKey(xrefPayload[i]).v : i \in indexed }
            /\ \A i \in indexed :
                  LET k == ClaimedKey(xrefPayload[i]).v
                  IN  \/ idsMap[k] = xrefPayload[i].val
                      \/ \E j \in indexed : j > i /\ ClaimedKey(xrefPayload[j]).v = k

\* a document with an item whose embedded mal_id and top-level key both
\* parse and differ, and an item that is skipped
C13_Witness ==
    /\ pc = "merge"
    /\ Len(xrefPayload) = 2
    /\ xrefPayload[1].key = "5"
    /\ xrefPayload[2].key = "x"
    /\ DOMAIN idsMap = {1}

\* C14: in the 401 recovery the discard of the access token is in the file
\* before any token exchange is posted; the ensure_token of the recovery
\* never returns on its fast path, whatever expires_at the rejected token
\* had; and the page request is repeated only after an exchange of that
\* ensure_token succeeded and was applied.
C14_DiscardPersistedBeforeRenewal ==
    [][ /\ (pc = "fetch_get" /\ pc' = "et_start") =>
              /\ "access_token" \notin DOMAIN disk'
              /\ disk' = config'
        /\ (caller = "recover" /\ etCalls' # etCalls /\ etCalls' # <<>>) =>
              "access_token" \notin DOMAIN disk
        /\ (caller = "recover" /\ pc = "et_start") =>
              ~(pc' = "et_ret" /\ etResult' = "ok")
        /\ (pc # "fetch_retry" /\ pc' = "fetch_retry") =>
              /\ applied
              /\ etCalls # <<>>
              /\ Truthy(tokenResp) ]_vars

\* the recovery obtained a token by an exchange although the rejected token
\* was far from its expiry
C14_Witness ==
    /\ pc = "et_ret"
    /\ caller = "recover"
    /\ etResult = "ok"
    /\ applied
    /\ "access_token" \notin DOMAIN etStart
    /\ Get(etStart, "expires_at", 0) > etNow + 60

\* C15: when a token exchange is answered with status 200 and a body without
\* access_token (the body without any field among them), ensure_token raises
\* at that point: it posts no further exchange and stores nothing of the
\* answer, in memory or in the file.
C15_MalformedBodyEndsEnsureToken ==
    [][ ( /\ pc \in {"et_refresh", "et_code"}
          /\ pc' # pc
          /\ tokenResp'.some
          /\ "access_token" \notin DOMAIN tokenResp'.json ) =>
              /\ pc' = "et_ret"
              /\ etResult' \notin {"none", "ok"}
              /\ etCalls' = etCalls
              /\ config' = config
              /\ disk' = disk ]_vars

\* the record allows the authorization-code exchange
HasCodeAndVerifier(c) ==
    /\ ~Falsy(Get(c, "authorization_code", None))
    /\ ~Falsy(Get(c, "code_verifier", None))

\* C16: a refresh exchange answered with a status other than 200, on a record
\* with authorization_code and code_verifier, is followed by the
\* authorization-code exchange; the code exchange follows a refresh exchange
\* only when that gave no usable result (None or an empty body); and
\* ensure_token raises 'Could not obtain access token' exactly when the
\* token was not valid, client_id and client_secret were present, every
\* exchange the record allows was posted and the last answer was unusable.
C16_FallbackAndFinalError ==
    [][ /\ (pc = "et_refresh" /\ pc' # pc /\ ~tokenResp'.some /\ HasCodeAndVerifier(config)) =>
              /\ pc' = "et_code"
              /\ etCalls' = <<"refresh", "code">>
        /\ (pc = "et_refresh" /\ pc' = "et_code") => ~Truthy(tokenResp')
        /\ (pc # "et_ret" /\ pc' = "et_ret") =>
              ( etResult' = "no_token" <=>
                  /\ ~token_is_valid(etStart', etNow')
                  /\ ~Falsy(Get(etStart', "client_id", None))
                  /\ ~Falsy(Get(etStart', "client_secret", None))
                  /\ etCalls' = (IF Falsy(Get(etStart', "refresh_token", None))
                                 THEN <<>> ELSE <<"refresh">>)
                                \o (IF HasCodeAndVerifier(etStart') THEN <<"code">> ELSE <<>>)
                  /\ ~Truthy(tokenResp') ) ]_vars

\* both exchanges were posted and failed, and ensure_token raises
C16_Witness ==
    /\ pc = "et_ret"
    /\ etResult = "no_token"
    /\ etCalls = <<"refresh", "code">>
    /\ ~tokenResp.some

\* C17: an ensure_token that ends in an error (client_id or client_secret
\* missing, no exchange gave a result, a token response without access_token
\* or with an expires_in that is no integer) leaves the file as it was when
\* the call started; while the call runs the file changes only in the step
\* that applies, to its end, the 200 answer of an exchange.
C17_ErrorLeavesFileUnchanged ==
    EtRunning =>
        /\ (pc = "et_ret" /\ etResult # "ok") => disk = etStart
        /\ disk # etStart =>
              /\ pc = "et_ret"
              /\ etResult = "ok"
              /\ applied
              /\ tokenResp.some
              /\ HoldsToken(tokenResp.json)

\* ensure_token ended in an error after it had put the new access token in
\* the in-memory record, and the file is as it was
C17_Witness ==
    /\ pc = "et_ret"
    /\ etResult = "int"
    /\ config # etStart
    /\ disk = etStart

\* C18: whenever a network call has been issued and whenever an ensure_token
\* or a request has returned or failed, the file equals the in-memory record:
\* every change of the record was saved before.
C18_FileEqualsMemory ==
    pc \in {"et_refresh", "et_code", "et_ret", "fetch_get", "fetch_retry", "xref", "idle"} =>
        disk = config

\* C20: an authorization_code is sent in at most one exchange: a step that
\* posts the authorization-code exchange sends a code that no earlier
\* exchange, of this or an earlier call, has sent.
C20_CodeSentOnce ==
    [][ (pc # "et_code" /\ pc' = "et_code") =>
            Get(config', "authorization_code", None) \notin usedCodes ]_vars

\* fetch_all_animelist has been called and has neither returned nor raised
FetchRunning ==
    /\ caller \in {"fetch", "recover"}
    /\ pc \in {"et_start", "et_refresh", "et_code", "et_ret", "fetch_loop", "fetch_get",
                "fetch_retry"}

\* C19: with a finite page chain and every network call answered,
\* fetch_all_animelist eventually returns or raises; while it runs it has
\* sent at most two requests for the current page, each of its ensure_token
\* calls has posted at most one refresh and one authorization-code exchange,
\* its network calls number at most one per accepted page, three per 401
\* recovery, two for the first ensure_token and one more; and a failure
\* other than a 401 answer to the first request of a page ends the request.
C19_FetchEnds ==
    /\ [](FetchRunning =>
            /\ pageGets <= 2
            /\ etCalls \in {<<>>, <<"refresh">>, <<"code">>, <<"refresh", "code">>}
            /\ recoveries <= Len(pages) + 1
            /\ opCalls <= Len(pages) + 3 * recoveries + 3)
    /\ [][RouteStepFailed => pc' = "idle"]_vars
    /\ (FetchRunning ~> (pc \in {"xref", "idle"}))

\* the fetch has returned after the longest chain with a 401 recovery on
\* every page, each with both exchanges
C19_Witness ==
    /\ pc = "xref"
    /\ Len(pages) = MaxPages
    /\ recoveries = MaxPages
    /\ opCalls >= 4 * MaxPages + 1

====
